---- MODULE Spec2Model ----
(***************************************************************************)
(* Model of the AccessNX scanner page (src/src/pages/ScannerPage.tsx):     *)
(* the four pieces of React state (url, isScanning, error, result), the    *)
(* event handlers handleScan / handleKeyDown / onChange, the suspended     *)
(* continuation of handleScan after its await, and the render body that    *)
(* sorts result.issues.                                                    *)
(* The focus and scroll effects of a commit and the isExpanded state of   *)
(* the mounted IssueCards (src/src/components/IssueCard.tsx) are included. *)
(*                                                                         *)
(* Strings are TLA+ strings over the alphabet Chars (lower-case letters,   *)
(* ':', '/', '.', ' ').  A nullable value is the empty set (Null) or a     *)
(* singleton (Some(v)).                                                    *)
(***************************************************************************)
EXTENDS Integers, Sequences, FiniteSets, TLC

(* ---------------------------- bounds ----------------------------------- *)

\* longest issue list the scan collaborator returns
MaxIssues == 3

\* number of handleScan invocations explored
MaxSubmits == 2

(* ---------------------------- strings ---------------------------------- *)

Null == {}

Some(v) == {v}

Val(o) == CHOOSE v \in o : TRUE

Letters ==
  {"a","b","c","d","e","f","g","h","i","j","k","l","m",
   "n","o","p","q","r","s","t","u","v","w","x","y","z"}

Chars == Letters \cup {":", "/", ".", " "}

Char(s, i) == SubSeq(s, i, i)

\* index of the first character of s that is in C, Len(s)+1 when there is none
FirstIn(s, C) ==
  IF \E i \in 1..Len(s) : Char(s, i) \in C
  THEN CHOOSE i \in 1..Len(s) :
         /\ Char(s, i) \in C
         /\ \A j \in 1..(i-1) : Char(s, j) \notin C
  ELSE Len(s) + 1

\* index of the last character of s that is in C, 0 when there is none
LastIn(s, C) ==
  IF \E i \in 1..Len(s) : Char(s, i) \in C
  THEN CHOOSE i \in 1..Len(s) :
         /\ Char(s, i) \in C
         /\ \A j \in (i+1)..Len(s) : Char(s, j) \notin C
  ELSE 0

\* String.prototype.trim: whitespace removed at both ends
trim(s) == SubSeq(s, FirstIn(s, Chars \ {" "}), LastIn(s, Chars \ {" "}))

\* String.prototype.startsWith
startsWith(s, p) == Len(s) >= Len(p) /\ SubSeq(s, 1, Len(p)) = p

(* ------------------------- new URL(string) ----------------------------- *)

\* schemes the URL parser treats as special (file is handled by FileOk)
SpecialSchemes == {"http", "https", "ftp", "ws", "wss"}

\* characters a scheme may contain (digits, '+' and '-' are not in Chars)
SchemeChars == Letters \cup {"."}

\* position of the ':' that ends the scheme of t, 0 when t has no scheme
SchemeEnd(t) ==
  LET k == FirstIn(t, Chars \ SchemeChars)
  IN  IF /\ Len(t) >= 1
         /\ Char(t, 1) \in Letters
         /\ k <= Len(t)
         /\ Char(t, k) = ":"
      THEN k ELSE 0

\* authority state, host state and port state of the URL parser on r, the
\* input after the scheme and its slashes: a space is a forbidden host code
\* point, a host before ':' must not be empty, and a port holds digits only
\* (no digit is in Chars, so a port that parses is empty)
AuthorityOk(r, special) ==
  LET auth    == SubSeq(r, 1, FirstIn(r, {"/"}) - 1)
      c       == FirstIn(auth, {":"})
      host    == SubSeq(auth, 1, c - 1)
      hasPort == c <= Len(auth)
      port    == SubSeq(auth, c + 1, Len(auth))
  IN  /\ \A i \in 1..Len(host) : Char(host, i) # " "
      /\ hasPort => (host # "" /\ port = "")
      /\ special => host # ""

\* file state, file slash state and file host state of the URL parser
FileOk(rest) ==
  IF startsWith(rest, "//")
  THEN LET r      == SubSeq(rest, 3, Len(rest))
           buffer == SubSeq(r, 1, FirstIn(r, {"/"}) - 1)
       IN  \/ buffer = ""
           \/ Len(buffer) = 2 /\ Char(buffer, 1) \in Letters /\ Char(buffer, 2) = ":"
           \/ \A i \in 1..Len(buffer) : Char(buffer, i) \notin {" ", ":"}
  ELSE TRUE

\* new URL(s) returns (TRUE) or throws TypeError (FALSE); no base URL
URLParses(s) ==
  LET t == trim(s)
      k == SchemeEnd(t)
  IN  /\ k > 0
      /\ LET scheme == SubSeq(t, 1, k - 1)
             rest   == SubSeq(t, k + 1, Len(t))
         IN  IF scheme = "file" THEN FileOk(rest)
             ELSE IF scheme \in SpecialSchemes
             THEN AuthorityOk(SubSeq(rest, FirstIn(rest, Chars \ {"/"}), Len(rest)), TRUE)
             ELSE IF startsWith(rest, "//")
             THEN AuthorityOk(SubSeq(rest, 3, Len(rest)), FALSE)
             ELSE TRUE

(* ------------------------- ScannerPage helpers ------------------------- *)

\* const urlToTest = input.startsWith('http') ? input : `https://${input}`
urlToTest(input) == IF startsWith(input, "http") THEN input ELSE "https://" \o input

\* a slip in the first return: a blank input is reported valid
validateUrlBlankAccepted(input) ==
  IF trim(input) = "" THEN TRUE
  ELSE URLParses(urlToTest(input))

validateUrl(input) ==
  IF trim(input) = "" THEN FALSE
  ELSE URLParses(urlToTest(input))

\* a slip that prepends the scheme to every input
formattedUrlAlwaysPrefixed(u) == "https://" \o u

\* const formattedUrl = url.startsWith('http') ? url : `https://${url}`
formattedUrl(u) == IF startsWith(u, "http") THEN u ELSE "https://" \o u

\* setError('Please enter a valid website URL.')
ValidationMessage == "Please enter a valid website URL."

\* the texts typed into the URL field (onChange fires when the text changes)
Inputs ==
  {"", "   ", "httpbin.org", "notaurl", "example.com", "https://example.com"}

\* the keys pressed in the URL field
Keys == {"Enter", "a"}

(* ------------------------- scan result model --------------------------- *)

Severity == {"critical", "moderate", "minor"}

\* the issue lists a scan produces: ids are unique within a result
IssueLists ==
  UNION {{[i \in 1..n |-> [id |-> i, severity |-> f[i]]] : f \in [1..n -> Severity]} :
         n \in 0..MaxIssues}

\* the scan collaborator: the ScanResults a call with url u, made as call
\* number n, can resolve with (it can also throw, see ScanReject)
generateMockResult(u, n) ==
  {[url |-> u, scanDate |-> n, issues |-> is] : is \in IssueLists}

(* ------------------------- issue ranking ------------------------------- *)

severityOrder == [critical |-> 0, moderate |-> 1, minor |-> 2]

\* a slip that subtracts the ranks the other way round
compareReversed(a, b) == severityOrder[b.severity] - severityOrder[a.severity]

\* a slip that never reports a tie: equal severities compare as greater
compareTiesAsGreater(a, b) ==
  IF a.severity = b.severity THEN 1
  ELSE severityOrder[a.severity] - severityOrder[b.severity]

\* the comparator passed to Array.prototype.sort
compare(a, b) == severityOrder[a.severity] - severityOrder[b.severity]

\* an unstable insertion: x placed in front of the elements it ties with
InsertSortedBeforeEqual(s, x) ==
  LET k == IF \E i \in 1..Len(s) : compare(s[i], x) >= 0
           THEN CHOOSE i \in 1..Len(s) :
                  /\ compare(s[i], x) >= 0
                  /\ \A j \in 1..(i-1) : compare(s[j], x) < 0
           ELSE Len(s) + 1
  IN  SubSeq(s, 1, k - 1) \o <<x>> \o SubSeq(s, k, Len(s))

\* x placed behind every element that does not compare greater than it
InsertSorted(s, x) ==
  LET k == IF \E i \in 1..Len(s) : compare(s[i], x) > 0
           THEN CHOOSE i \in 1..Len(s) :
                  /\ compare(s[i], x) > 0
                  /\ \A j \in 1..(i-1) : compare(s[j], x) <= 0
           ELSE Len(s) + 1
  IN  SubSeq(s, 1, k - 1) \o <<x>> \o SubSeq(s, k, Len(s))

RECURSIVE SortPrefix(_, _)
SortPrefix(s, n) == IF n = 0 THEN <<>> ELSE InsertSorted(SortPrefix(s, n - 1), s[n])

\* Array.prototype.sort with the severity comparator (a stable sort)
sort(issues) == SortPrefix(issues, Len(issues))

(* ------------------------------ state ---------------------------------- *)

VARIABLES
  url,           \* useState(''): the text of the URL field
  isScanning,    \* useState(false)
  error,         \* useState<string | null>(null)
  result,        \* useState<ScanResult | null>(null)
  sortedIssues,  \* the const sortedIssues of the last render
  pending,       \* handleScan invocations suspended at the await, oldest first
  promise,       \* state of the promise of the latest handleScan invocation
  nSubmits,      \* number of handleScan invocations
  nCalls,        \* number of generateMockResult calls
  lastCall,      \* the latest generateMockResult call: input text and argument
  produced,      \* the ScanResult as the collaborator last returned it
  effects,       \* the focus and scroll calls made by the effects of the last commit
  expanded       \* ids of the mounted IssueCards whose isExpanded is true

vars ==
  <<url, isScanning, error, result, sortedIssues, pending, promise,
    nSubmits, nCalls, lastCall, produced, effects, expanded>>

\* the component body runs after every state change: line 89 sorts
\* result.issues in place and sortedIssues is that same array
RenderResult(r) ==
  IF r = Null THEN Null ELSE Some([Val(r) EXCEPT !.issues = sort(@)])

RenderSorted(r) ==
  IF r = Null THEN Null ELSE Some(Val(RenderResult(r)).issues)

Render(r) ==
  /\ result' = RenderResult(r)
  /\ sortedIssues' = RenderSorted(r)

\* two values of result are the same object: a ScanResult is identified by
\* the call that created it, sorting its issues in place keeps it the same
SameRef(a, b) ==
  \/ a = Null /\ b = Null
  \/ a # Null /\ b # Null /\ Val(a).scanDate = Val(b).scanDate

\* useEffect(..., [error]): runs when error changed since the last commit and
\* focuses the alert when error is set (errorRef is attached iff error is set)
focusErrorEffect(prevError, newError) ==
  newError # prevError /\ newError # Null

\* useEffect(..., [result]): runs when result is another object than at the
\* last commit and scrolls when the results region is mounted (resultsRef set)
scrollEffect(prevResult, newResult, shown) ==
  ~SameRef(prevResult, newResult) /\ newResult # Null /\ shown

\* the calls made by the effects of a commit that takes error from e0 to e1
\* and result from r0 to r1, with the results region mounted or not
Effects(e0, e1, r0, r1, shown) ==
  {x \in {"focusError"} : focusErrorEffect(e0, e1)}
    \cup {x \in {"scrollResults"} : scrollEffect(r0, r1, shown)}

\* setResult(scanResult) and setIsScanning(false) run after the await,
\* outside any event handler: the root either applies them in one commit
\* ("batched") or commits after each of them ("separate"); the source does
\* not fix which
CommitModes == {"batched", "separate"}

\* the results region is mounted at the commit that carries the new result r:
\* a batched commit also carries isScanning = false, a separate commit is made
\* while isScanning still has its value from before setIsScanning(false)
ShownAtResultCommit(mode, r, scanningBefore) ==
  r # Null /\ (mode = "batched" \/ ~scanningBefore)

Init ==
  /\ url = ""
  /\ isScanning = FALSE
  /\ error = Null
  /\ result = Null
  /\ sortedIssues = Null
  /\ pending = <<>>
  /\ promise = "none"
  /\ nSubmits = 0
  /\ nCalls = 0
  /\ lastCall = Null
  /\ produced = Null
  /\ effects = {"focusInput"}
  /\ expanded = {}

(* ------------------------------ view ----------------------------------- *)

\* a field that is also disabled while an error is shown
InputDisabledOnError == isScanning \/ error # Null

\* disabled={isScanning} on the URL field and on the scan button
InputDisabled == isScanning

ButtonDisabled == isScanning

\* {isScanning && (<section aria-live="polite" role="status">...)}
StatusShown == isScanning

\* aria-invalid={error ? 'true' : 'false'}
AriaInvalid == error # Null

\* a results region that is not hidden while scanning
ResultsShownWhileScanning == result # Null

\* {result && !isScanning && ( ... )}
ResultsShown == result # Null /\ ~isScanning

(* ---------------------------- issue cards ------------------------------ *)

\* the keys of the IssueCards of a result: key={issue.id}
IssueIds(r) ==
  IF r = Null THEN {} ELSE {Val(r).issues[i].id : i \in 1..Len(Val(r).issues)}

\* cards that are hidden but stay mounted keep their state
CardsKeptMounted(exp, wasShown, isShown, ids) == exp \cap ids

\* the isExpanded states after a commit: a card keeps its useState value
\* while it stays mounted under the same key, a newly mounted card starts
\* with useState(false), and no card is mounted outside the results region
Cards(exp, wasShown, isShown, ids) ==
  IF wasShown /\ isShown THEN exp \cap ids ELSE {}

(* ----------------------------- actions --------------------------------- *)

\* onClick={() => setIsExpanded(!isExpanded)} on the header of the card id
ToggleCard(id) ==
  /\ ResultsShown
  /\ id \in IssueIds(result)
  /\ expanded' = IF id \in expanded THEN expanded \ {id} ELSE expanded \cup {id}
  /\ effects' = {}
  /\ UNCHANGED <<url, isScanning, error, result, sortedIssues, pending, promise,
                 nSubmits, nCalls, lastCall, produced>>

\* onChange={e => setUrl(e.target.value)}
SetUrl(s) ==
  /\ ~InputDisabled
  /\ s # url
  /\ url' = s
  /\ Render(result)
  /\ UNCHANGED <<isScanning, error, pending, promise, nSubmits, nCalls, lastCall, produced>>
  /\ effects' = Effects(error, error', result, result', ResultsShown')
  /\ expanded' = Cards(expanded, ResultsShown, ResultsShown', IssueIds(result'))

\* handleScan without the return after setError: an invalid input is scanned
handleScanNoReturn ==
  /\ nSubmits < MaxSubmits
  /\ nSubmits' = nSubmits + 1
  /\ error' = IF ~validateUrl(url) THEN Some(ValidationMessage) ELSE Null
  /\ isScanning' = TRUE
  /\ pending' = Append(pending, [url |-> url])
  /\ promise' = "pending"
  /\ Render(result)
  /\ UNCHANGED <<url, nCalls, lastCall, produced>>
  /\ effects' = Effects(error, error', result, result', ResultsShown')
  /\ expanded' = Cards(expanded, ResultsShown, ResultsShown', IssueIds(result'))

\* handleScan with setIsScanning(true) moved in front of the validation
handleScanScanningFirst ==
  /\ nSubmits < MaxSubmits
  /\ nSubmits' = nSubmits + 1
  /\ isScanning' = TRUE
  /\ IF ~validateUrl(url)
     THEN /\ error' = Some(ValidationMessage)
          /\ promise' = "returned"
          /\ UNCHANGED pending
     ELSE /\ error' = Null
          /\ pending' = Append(pending, [url |-> url])
          /\ promise' = "pending"
  /\ Render(result)
  /\ UNCHANGED <<url, nCalls, lastCall, produced>>
  /\ effects' = Effects(error, error', result, result', ResultsShown')
  /\ expanded' = Cards(expanded, ResultsShown, ResultsShown', IssueIds(result'))

\* handleScan up to its return or its await
handleScan ==
  /\ nSubmits < MaxSubmits
  /\ nSubmits' = nSubmits + 1
  /\ IF ~validateUrl(url)
     THEN /\ error' = Some(ValidationMessage)
          /\ promise' = "returned"
          /\ UNCHANGED <<isScanning, pending>>
     ELSE /\ error' = Null
          /\ isScanning' = TRUE
          /\ pending' = Append(pending, [url |-> url])
          /\ promise' = "pending"
  /\ Render(result)
  /\ UNCHANGED <<url, nCalls, lastCall, produced>>
  /\ effects' = Effects(error, error', result, result', ResultsShown')
  /\ expanded' = Cards(expanded, ResultsShown, ResultsShown', IssueIds(result'))

\* onClick={handleScan} on the scan button
ClickScan ==
  /\ ~ButtonDisabled
  /\ handleScan

\* handleKeyDown without the !isScanning test
KeyDownUnguarded(key) ==
  IF key = "Enter"
  THEN handleScan
  ELSE UNCHANGED vars

\* handleKeyDown
KeyDown(key) ==
  IF key = "Enter" /\ ~isScanning
  THEN handleScan
  ELSE UNCHANGED vars

\* the continuation without setIsScanning(false)
ScanResolveKeepsScanning ==
  /\ pending # <<>>
  /\ LET target == formattedUrl(Head(pending).url)
     IN  \E r \in generateMockResult(target, nCalls + 1) :
           /\ lastCall' = Some([input |-> Head(pending).url, arg |-> target])
           /\ produced' = Some(r)
           /\ Render(Some(r))
  /\ nCalls' = nCalls + 1
  /\ promise' = "fulfilled"
  /\ pending' = Tail(pending)
  /\ UNCHANGED <<url, isScanning, error, nSubmits>>
  /\ \E mode \in CommitModes :
       effects' = Effects(error, error', result, result',
                          ShownAtResultCommit(mode, result', isScanning))
  /\ expanded' = Cards(expanded, ResultsShown, ResultsShown', IssueIds(result'))

\* the timer fires, generateMockResult returns: setResult, setIsScanning(false)
ScanResolve ==
  /\ pending # <<>>
  /\ LET target == formattedUrl(Head(pending).url)
     IN  \E r \in generateMockResult(target, nCalls + 1) :
           /\ lastCall' = Some([input |-> Head(pending).url, arg |-> target])
           /\ produced' = Some(r)
           /\ Render(Some(r))
  /\ nCalls' = nCalls + 1
  /\ isScanning' = FALSE
  /\ promise' = "fulfilled"
  /\ pending' = Tail(pending)
  /\ UNCHANGED <<url, error, nSubmits>>
  /\ \E mode \in CommitModes :
       effects' = Effects(error, error', result, result',
                          ShownAtResultCommit(mode, result', isScanning))
  /\ expanded' = Cards(expanded, ResultsShown, ResultsShown', IssueIds(result'))

\* the timer fires, generateMockResult throws: the rest of handleScan is
\* skipped and its promise rejects
ScanReject ==
  /\ pending # <<>>
  /\ lastCall' = Some([input |-> Head(pending).url,
                       arg |-> formattedUrl(Head(pending).url)])
  /\ nCalls' = nCalls + 1
  /\ promise' = "rejected"
  /\ pending' = Tail(pending)
  /\ UNCHANGED <<url, isScanning, error, result, sortedIssues, nSubmits, produced, effects,
                 expanded>>

Next ==
  \/ \E s \in Inputs : SetUrl(s)
  \/ ClickScan
  \/ \E key \in Keys : KeyDown(key)
  \/ ScanResolve
  \/ ScanReject
  \/ \E id \in 1..MaxIssues : ToggleCard(id)

Spec == Init /\ [][Next]_vars

TypeOK ==
  /\ url \in Inputs
  /\ isScanning \in BOOLEAN
  /\ error \in {Null, Some(ValidationMessage)}
  /\ nSubmits \in 0..MaxSubmits
  /\ nCalls \in 0..nSubmits
  /\ promise \in {"none", "returned", "pending", "fulfilled", "rejected"}
  /\ effects \subseteq {"focusInput", "focusError", "scrollResults"}
  /\ expanded \subseteq IssueIds(result)
  /\ ~ResultsShown => expanded = {}

(* ------------------------------ claims --------------------------------- *)

\* C1: error and result are never both populated.
C1_ErrorResultExclusive == ~(error # Null /\ result # Null)

\* C2: every accepted submit discards the previous outcome: after a submit
\* with invalid input result is null, and while a scan is in flight both
\* error and result are null.
C2_SubmitClearsOutcome ==
  /\ promise = "returned" => result = Null
  /\ pending # <<>> => (error = Null /\ result = Null)

\* C3: while Scanning no handleScan invocation starts and no submit changes
\* the input or the error; at most one invocation is suspended at any time
\* and the collaborator is called at most once per invocation.
C3_SubmitWhileScanningIsNoOp ==
  [][/\ Len(pending') <= 1
     /\ nCalls' + Len(pending') <= nSubmits'
     /\ isScanning => /\ nSubmits' = nSubmits
                      /\ Len(pending') <= Len(pending)
                      /\ url' = url
                      /\ error' = error]_vars

\* C3 witness: a scan is in flight and a further submit is within the bound
C3_Witness == isScanning /\ Len(pending) = 1 /\ nSubmits < MaxSubmits

\* C4: when the collaborator throws, the controller ends with a non-null
\* error and a null result.
C4_RejectEndsInFailed == promise = "rejected" => (error # Null /\ result = Null)

\* C5: once the collaborator has produced its outcome, success or failure,
\* the controller has left Scanning.
C5_OutcomeLeavesScanning == promise \in {"fulfilled", "rejected"} => ~isScanning

\* C6: a submit of an input that fails validation sets error to the
\* validation reason, marks the input invalid, leaves isScanning false,
\* suspends no invocation and makes no collaborator call.
C6_InvalidSubmitFails ==
  [][(nSubmits' = nSubmits + 1 /\ ~validateUrl(url)) =>
       /\ error' = Some(ValidationMessage)
       /\ AriaInvalid'
       /\ ~isScanning /\ ~isScanning'
       /\ pending' = <<>>
       /\ nCalls' = nCalls
       /\ lastCall' = lastCall]_vars

\* C6 witness: an invalid input was submitted
C6_Witness ==
  /\ promise = "returned"
  /\ ~validateUrl(url)
  /\ error = Some(ValidationMessage)
  /\ ~isScanning

SameScanResult(r, p) ==
  /\ r.url = p.url
  /\ r.scanDate = p.scanDate
  /\ Len(r.issues) = Len(p.issues)
  /\ {r.issues[i] : i \in 1..Len(r.issues)} = {p.issues[i] : i \in 1..Len(p.issues)}

\* C8: when the collaborator resolves, result is the ScanResult it returned,
\* error is null and isScanning is false.
C8_ResolveSucceeds ==
  promise = "fulfilled" =>
    /\ result # Null
    /\ produced # Null
    /\ SameScanResult(Val(result), Val(produced))
    /\ Val(result).scanDate = nCalls
    /\ error = Null
    /\ ~isScanning

\* C8 witness: a scan resolved with a non-empty issue list
C8_Witness ==
  /\ promise = "fulfilled"
  /\ result # Null
  /\ Len(Val(result).issues) > 0
  /\ ResultsShown

\* C9: the order of result.issues is the order in which the collaborator
\* produced the issues.
C9_RenderKeepsIssueOrder ==
  result # Null => (produced # Null /\ Val(result).issues = Val(produced).issues)

\* critical sorts before moderate, moderate before minor
NotAfter(a, b) == a = b \/ a = "critical" \/ b = "minor"

Severities(issues) == [i \in 1..Len(issues) |-> issues[i].severity]

\* C10: the ranked sequence is ordered by severity, critical first; the
\* list [minor, critical, moderate] is rendered as [critical, moderate, minor].
C10_RankedBySeverity ==
  sortedIssues # Null =>
    LET s == Val(sortedIssues)
    IN  /\ \A i \in 1..(Len(s) - 1) : NotAfter(s[i].severity, s[i + 1].severity)
        /\ (produced # Null /\ result # Null
            /\ Val(result).scanDate = Val(produced).scanDate
            /\ Severities(Val(produced).issues) = <<"minor", "critical", "moderate">>)
             => Severities(s) = <<"critical", "moderate", "minor">>

\* C10 witness: the results of a scan that produced [minor, critical,
\* moderate] are shown
C10_Witness ==
  /\ ResultsShown
  /\ sortedIssues # Null
  /\ produced # Null
  /\ Severities(Val(produced).issues) = <<"minor", "critical", "moderate">>
  /\ Severities(Val(sortedIssues)) = <<"critical", "moderate", "minor">>

\* position of the issue x in the list p
Position(p, x) == CHOOSE k \in 1..Len(p) : p[k] = x

\* C11: the ranked sequence is a permutation of the issues the collaborator
\* produced, and two issues of equal severity keep their produced order.
C11_RankIsStable ==
  (sortedIssues # Null /\ produced # Null) =>
    LET s == Val(sortedIssues)
        p == Val(produced).issues
    IN  /\ Len(s) = Len(p)
        /\ \A k \in 1..Len(p) : \E i \in 1..Len(s) : s[i] = p[k]
        /\ \A i, j \in 1..Len(s) :
             (i < j /\ s[i].severity = s[j].severity)
               => Position(p, s[i]) < Position(p, s[j])

\* C11 witness: two issues of equal severity were produced behind an issue
\* that ranks after them, and the ranked list is shown
C11_Witness ==
  /\ ResultsShown
  /\ sortedIssues # Null
  /\ produced # Null
  /\ Severities(Val(produced).issues) = <<"minor", "critical", "critical">>
  /\ Val(sortedIssues)[1].id = 2
  /\ Val(sortedIssues)[2].id = 3

\* C12: ranking the ranked list again, as every re-render does, yields the
\* same sequence: the stored list and the rendered list are fixed points.
C12_RankIsIdempotent ==
  /\ sortedIssues # Null => sort(Val(sortedIssues)) = Val(sortedIssues)
  /\ produced # Null =>
       sort(sort(Val(produced).issues)) = sort(Val(produced).issues)

\* C12 witness: a list with a tie that was not produced in ranked order has
\* been ranked and re-rendered after an edit of the field
C12_Witness ==
  /\ ResultsShown
  /\ produced # Null
  /\ Severities(Val(produced).issues) = <<"moderate", "critical", "moderate">>
  /\ sortedIssues # Null
  /\ Val(lastCall).input # url

\* C13: a text without a scheme passes validateUrl exactly when the same
\* text prefixed with "https://" passes.
C13_SchemelessValidatedAsHttps ==
  SchemeEnd(url) = 0 => (validateUrl(url) <=> validateUrl("https://" \o url))

\* the text is empty or holds spaces only
Blank(s) == \A i \in 1..Len(s) : Char(s, i) = " "

\* C14: validateUrl rejects the empty text and every text of spaces only,
\* and a submit of such a text ends with the validation reason, not scanning.
C14_BlankInputRejected ==
  [][/\ Blank(url) => ~validateUrl(url)
     /\ (nSubmits' = nSubmits + 1 /\ Blank(url)) =>
          /\ error' = Some(ValidationMessage)
          /\ promise' = "returned"
          /\ ~isScanning'
          /\ pending' = <<>>]_vars

\* C14 witness: a text of spaces only was submitted
C14_Witness ==
  /\ Blank(url)
  /\ Len(url) > 0
  /\ promise = "returned"
  /\ error = Some(ValidationMessage)
  /\ ~isScanning

\* C15: every submit that ends with an error moves focus to the error
\* message, and a re-render caused by typing in the field does not.
C15_FocusOnEveryFailure ==
  [][/\ (nSubmits' = nSubmits + 1 /\ error' # Null) => "focusError" \in effects'
     /\ url' # url => "focusError" \notin effects']_vars

C17_ControlsDisabledWhileScanning ==
  /\ InputDisabled <=> isScanning
  /\ ButtonDisabled <=> isScanning
  /\ StatusShown <=> isScanning
  /\ pending # <<>> => (InputDisabled /\ ButtonDisabled /\ StatusShown)
  /\ promise \in {"none", "returned", "fulfilled"}
       => (~InputDisabled /\ ~ButtonDisabled /\ ~StatusShown)

\* C17 witness: an error is shown after a failed validation and the controls
\* are enabled
C17_Witness ==
  /\ promise = "returned"
  /\ error = Some(ValidationMessage)
  /\ ~InputDisabled
  /\ ~ButtonDisabled

\* C18: error is null whenever isScanning; error becomes populated only by a
\* handleScan invocation made while not scanning, and no step taken while
\* scanning changes it.
C18_NoErrorWhileScanning ==
  [][/\ isScanning => error = Null
     /\ isScanning' => error' = Null
     /\ isScanning => error' = error
     /\ (error' # error /\ error' # Null)
          => (~isScanning /\ nSubmits' = nSubmits + 1)]_vars

\* C18 witness: a scan is in flight that was submitted after a failed
\* validation, whose error the submit cleared
C18_Witness ==
  /\ isScanning
  /\ pending # <<>>
  /\ error = Null
  /\ nSubmits = 2
  /\ nCalls = 0

\* C19: the results region is displayed iff result is non-null and
\* isScanning is false; while a rescan is in flight the previous result,
\* still held in state, is not displayed.
C19_ResultsHiddenWhileScanning ==
  /\ ResultsShown <=> (result # Null /\ ~isScanning)
  /\ pending # <<>> => ~ResultsShown

\* C19 witness: a rescan is in flight while the previous result is held
C19_Witness ==
  /\ pending # <<>>
  /\ isScanning
  /\ result # Null
  /\ ~ResultsShown

\* C20: no card is expanded when the results region is not shown, every
\* card is collapsed when the region is mounted and when the results of a
\* newly resolved scan are shown, and otherwise the expanded cards change
\* only by a click that toggles one card and leaves the others and the
\* scanner state alone.
C20_CardsCollapseOnNewResults ==
  [][/\ ~ResultsShown' => expanded' = {}
     /\ (~ResultsShown /\ ResultsShown') => expanded' = {}
     /\ (promise' = "fulfilled" /\ nCalls' = nCalls + 1) => expanded' = {}
     /\ (expanded' # expanded /\ ResultsShown') =>
          /\ ResultsShown
          /\ \E id \in IssueIds(result) :
               /\ (id \in expanded') <=> (id \notin expanded)
               /\ expanded' \ {id} = expanded \ {id}
          /\ UNCHANGED <<url, isScanning, error, result, sortedIssues, pending,
                         promise, nSubmits, nCalls>>]_vars

\* C20 witness: in the results of a second scan one card of several has been
\* expanded by a click and the others are collapsed
C20_Witness ==
  /\ ResultsShown
  /\ Val(result).scanDate = 2
  /\ Cardinality(IssueIds(result)) >= 2
  /\ Cardinality(expanded) = 1

====
